---------------------------- MODULE Spec2Model ----------------------------
(***************************************************************************)
(* Model of the cities service of fastapi-app/app/api/cities.py: the CSV   *)
(* import handler (parse_csv_row, upsert_cities_batch, import_cities) and  *)
(* the radius query (haversine_distance, get_cities_within_radius) over    *)
(* the "cities" table of a PostgreSQL store.                                *)
(*                                                                         *)
(* A Python str is a sequence of one-character strings; an Optional value *)
(* is NONE or Some(v).  A float number of degrees is an integer number of  *)
(* thousandths of a degree.                                                *)
(***************************************************************************)
EXTENDS Integers, Sequences, FiniteSets, TLC

(***************************************************************************)
(* Bounds of the model.  BATCH_SIZE (5000 in cities.py:17) and             *)
(* MAX_ERROR_EXAMPLES (10 in cities.py:18) are scaled down so that a file  *)
(* of MaxRows data rows spans several batches and overruns the error cap.  *)
(* MaxImports is the number of uploads of a concurrent run, MaxRefs the     *)
(* longest city_ids list of a radius query.                                *)
(***************************************************************************)
BATCH_SIZE == 2
MAX_ERROR_EXAMPLES == 2
MaxRows == 3
MaxImports == 2
MaxRefs == 3

(***************************************************************************)
(* Column limits of the table (program constants).                         *)
(***************************************************************************)
MAX_NAME_LEN == 255
MAX_CAPITAL_LEN == 50
ISO2_LEN == 2
ISO3_LEN == 3
ROW_FIELDS == 11

\* Optional[T]: None is the empty sequence, a value v is <<v>>.
NONE == <<>>
Some(v) == <<v>>

Min(a, b) == IF a <= b THEN a ELSE b
Abs(x) == IF x < 0 THEN 0 - x ELSE x

----------------------------------------------------------------------------
(***************************************************************************)
(* str operations used by parse_csv_row.                                   *)
(***************************************************************************)
Digits == <<"0", "1", "2", "3", "4", "5", "6", "7", "8", "9">>
LowerCase == <<"a", "b", "c", "d", "e", "f", "g", "h", "i", "j", "k", "l", "m",
               "n", "o", "p", "q", "r", "s", "t", "u", "v", "w", "x", "y", "z">>
UpperCase == <<"A", "B", "C", "D", "E", "F", "G", "H", "I", "J", "K", "L", "M",
               "N", "O", "P", "Q", "R", "S", "T", "U", "V", "W", "X", "Y", "Z">>
Whitespace == {" ", "\t", "\n", "\r"}

IsDigit(c) == \E i \in 1..10 : Digits[i] = c
DigitVal(c) == (CHOOSE i \in 1..10 : Digits[i] = c) - 1

\* str.upper(), one character at a time
UpperChar(c) ==
    IF \E i \in 1..26 : LowerCase[i] = c
    THEN UpperCase[CHOOSE i \in 1..26 : LowerCase[i] = c]
    ELSE c
Upper(s) == [i \in 1..Len(s) |-> UpperChar(s[i])]

\* s[:n]
Prefix(s, n) == SubSeq(s, 1, Min(Len(s), n))

\* s.endswith(suffix)
EndsWith(s, suffix) ==
    /\ Len(s) >= Len(suffix)
    /\ SubSeq(s, Len(s) - Len(suffix) + 1, Len(s)) = suffix

\* s.strip(chars): every leading and trailing character of the set goes
StripChars(s, chars) ==
    LET keep == {i \in 1..Len(s) : s[i] \notin chars}
    IN  IF keep = {} THEN <<>>
        ELSE SubSeq(s, CHOOSE i \in keep : \A j \in keep : i <= j,
                       CHOOSE i \in keep : \A j \in keep : i >= j)
Strip(s) == StripChars(s, Whitespace)

\* str(n) for a natural number
RECURSIVE Str(_)
Str(n) == IF n < 10 THEN <<Digits[n + 1]>> ELSE Str(n \div 10) \o <<Digits[(n % 10) + 1]>>

\* value of a non-empty run of digits
RECURSIVE DigitsVal(_)
DigitsVal(s) ==
    IF s = <<>> THEN 0 ELSE 10 * DigitsVal(SubSeq(s, 1, Len(s) - 1)) + DigitVal(s[Len(s)])

AllDigits(s) == Len(s) > 0 /\ \A i \in 1..Len(s) : IsDigit(s[i])
HasSign(s) == Len(s) > 0 /\ s[1] \in {"-", "+"}
Unsigned(s) == IF HasSign(s) THEN Tail(s) ELSE s
Signed(s, v) == IF HasSign(s) /\ s[1] = "-" THEN 0 - v ELSE v

\* int(s) succeeds: blanks around, an optional sign, decimal digits
IsInt(s) == AllDigits(Unsigned(Strip(s)))
IntOf(s) == Signed(Strip(s), DigitsVal(Unsigned(Strip(s))))

\* float(s) succeeds: blanks around, an optional sign, digits with at most one
\* point and at least one digit; the value is kept in thousandths
DotAt(s) == {i \in 1..Len(s) : s[i] = "."}
IsFloat(s) ==
    LET u == Unsigned(Strip(s))
        d == DotAt(u)
    IN  /\ Cardinality(d) <= 1
        /\ Len(u) > Cardinality(d)
        /\ \A i \in 1..Len(u) : IsDigit(u[i]) \/ i \in d
Pad3(f) == Prefix(f \o <<"0", "0", "0">>, 3)
FloatOf(s) ==
    LET u == Unsigned(Strip(s))
        d == DotAt(u)
        p == IF d = {} THEN Len(u) + 1 ELSE CHOOSE i \in d : TRUE
        whole == SubSeq(u, 1, p - 1)
        frac == SubSeq(u, p + 1, Len(u))
    IN  Signed(Strip(s), 1000 * DigitsVal(whole) + DigitsVal(Pad3(frac)))


----------------------------------------------------------------------------
(***************************************************************************)
(* parse_csv_row: a row is a sequence of fields (what csv.reader yields).  *)
(* The result is a dict with the key "error" or a dict of the 11 columns.  *)
(* An error message is the record of the parts its f-string is built from. *)
(***************************************************************************)
ErrorMsg(kind, line_number, detail) ==
    [kind |-> kind, line |-> line_number, detail |-> detail]

\* field.strip().strip('"') for every field
clean_row(row) == [i \in 1..Len(row) |-> StripChars(Strip(row[i]), {"\""})]

\* a population that is 0 where int() fails
population_or_zero(field) ==
    IF field # <<>> /\ Strip(field) # <<>> /\ IsInt(field) THEN Some(IntOf(field)) ELSE Some(0)

\* population: None unless the cleaned field is not blank and int() takes it
population_of(field) ==
    IF field # <<>> /\ Strip(field) # <<>> /\ IsInt(field) THEN Some(IntOf(field)) ELSE NONE

\* x if x else None
OrNone(field) == IF field # <<>> THEN Some(field) ELSE NONE
UpperOrNone(field) == IF field # <<>> THEN Some(Upper(field)) ELSE NONE

\* columns: 1 city, 2 city_ascii, 3 lat, 4 lng, 5 country, 6 iso2, 7 iso3,
\* 8 admin_name, 9 capital, 10 population, 11 id (Python indexes from 0)
parse_csv_row(row, line_number) ==
    IF Len(row) # ROW_FIELDS
    THEN [error |-> ErrorMsg("columns", line_number, Str(Len(row)))]
    ELSE LET c == clean_row(row)
         IN  IF ~IsInt(c[11])
             THEN [error |-> ErrorMsg("id", line_number, c[11])]
             ELSE IF ~IsFloat(c[3])
             THEN [error |-> ErrorMsg("lat", line_number, c[3])]
             ELSE IF ~IsFloat(c[4])
             THEN [error |-> ErrorMsg("lng", line_number, c[4])]
             ELSE [id |-> IntOf(c[11]),
                   city |-> c[1],
                   city_ascii |-> c[2],
                   lat |-> FloatOf(c[3]),
                   lng |-> FloatOf(c[4]),
                   country |-> c[5],
                   iso2 |-> UpperOrNone(c[6]),
                   iso3 |-> UpperOrNone(c[7]),
                   admin_name |-> OrNone(c[8]),
                   capital |-> OrNone(c[9]),
                   population |-> population_of(c[10])]

IsError(parsed) == "error" \in DOMAIN parsed

----------------------------------------------------------------------------
(***************************************************************************)
(* The store: the table "cities" is a set of records.  The statement of    *)
(* upsert_cities_batch is INSERT .. VALUES .. ON CONFLICT (id) DO UPDATE.  *)
(***************************************************************************)
\* x[:n] if x else None
ClampOpt(x, n) == IF x # NONE /\ x[1] # <<>> THEN Some(Prefix(x[1], n)) ELSE NONE

\* the dict appended to values for one city of the batch
Value(city) ==
    [id |-> city.id,
     city |-> Prefix(city.city, MAX_NAME_LEN),
     city_ascii |-> Prefix(city.city_ascii, MAX_NAME_LEN),
     lat |-> city.lat,
     lng |-> city.lng,
     country |-> Prefix(city.country, MAX_NAME_LEN),
     iso2 |-> ClampOpt(city.iso2, ISO2_LEN),
     iso3 |-> ClampOpt(city.iso3, ISO3_LEN),
     admin_name |-> ClampOpt(city.admin_name, MAX_NAME_LEN),
     capital |-> ClampOpt(city.capital, MAX_CAPITAL_LEN),
     population |-> city.population]

Values(cities) == [i \in 1..Len(cities) |-> Value(cities[i])]

BatchIds(cities) == {cities[i].id : i \in 1..Len(cities)}
StoredIds(table) == {c.id : c \in table}

\* a probe that asks for the first id of the batch only
ExistingIdsOfFirst(table, cities) == StoredIds(table) \cap {cities[1].id}

\* select(City.id).where(City.id.in_(city_ids))
ExistingIds(table, cities) == StoredIds(table) \cap BatchIds(cities)

\* What the store answers to the statement: the error it raises, or "ok".
\* A row list naming one id twice cannot be upserted by one ON CONFLICT DO
\* UPDATE statement; iso2 and iso3 are NOT NULL columns of the table.
StatementError(values) ==
    IF \E i, j \in 1..Len(values) : i # j /\ values[i].id = values[j].id
    THEN "CardinalityViolation"
    ELSE IF \E i \in 1..Len(values) : values[i].iso2 = NONE \/ values[i].iso3 = NONE
    THEN "NotNullViolation"
    ELSE "ok"

\* ON CONFLICT DO NOTHING: a stored row of the same id is kept as it is
OnConflictDoNothing(table, values) ==
    table \cup {values[i] : i \in {j \in 1..Len(values) : values[j].id \notin StoredIds(table)}}

\* an update that keeps the stored population where the incoming one is null
OnConflictCoalesce(table, values) ==
    LET Old(id) == CHOOSE c \in table : c.id = id
        Merged(v) == IF v.id \in StoredIds(table) /\ v.population = NONE
                     THEN [v EXCEPT !.population = Old(v.id).population]
                     ELSE v
    IN  {c \in table : c.id \notin BatchIds(values)} \cup {Merged(values[i]) : i \in 1..Len(values)}

\* The table after the statement commits: every row inserted by primary
\* key, a stored row of the same id replaced in all its other columns.
OnConflictDoUpdate(table, values) ==
    {c \in table : c.id \notin BatchIds(values)} \cup {values[i] : i \in 1..Len(values)}

\* lines 169-170: the counts, from the ids that existed before the upsert
CountInserted(cities, existing_ids) ==
    Cardinality({i \in 1..Len(cities) : cities[i].id \notin existing_ids})
CountUpdated(cities, existing_ids) ==
    Cardinality({i \in 1..Len(cities) : cities[i].id \in existing_ids})

----------------------------------------------------------------------------
(***************************************************************************)
(* haversine_distance, in metres, for two points given in thousandths of a *)
(* degree.  For two points of one meridian the formula is R * |dlat|, for  *)
(* two points of the equator R * |dlng| taken the short way round; these   *)
(* are the two cases the model's coordinates fall in.                      *)
(* MILLIMETRES_PER_MDEG is EARTH_RADIUS_KM * pi / 180 = 111.195 km per     *)
(* degree.                                                                 *)
(***************************************************************************)
MILLIMETRES_PER_MDEG == 111195
HALF_TURN_MDEG == 180000

ArcMetres(d) == d * (MILLIMETRES_PER_MDEG \div 1000)
                + (d * (MILLIMETRES_PER_MDEG % 1000)) \div 1000

haversine_distance(lat1, lng1, lat2, lng2) ==
    IF lng1 = lng2
    THEN ArcMetres(Abs(lat2 - lat1))
    ELSE LET dlng == Abs(lng2 - lng1)
         IN  ArcMetres(IF dlng > HALF_TURN_MDEG THEN 2 * HALF_TURN_MDEG - dlng ELSE dlng)


----------------------------------------------------------------------------
(***************************************************************************)
(* Inputs.  An upload is a filename and the body; the body either fails to *)
(* decode as UTF-8 or is the sequence of records csv.reader yields from    *)
(* it, the header first.  A record is a row of fields, or the csv.Error    *)
(* the reader raises when asked for it.                                    *)
(***************************************************************************)
Row(fields) == [fields |-> fields]
Raises == [raises |-> "csv.Error"]
IsRaise(rec) == "raises" \in DOMAIN rec

Header == Row(<< <<"c", "i", "t", "y">> >>)
EmptyLine == Row(<<>>)

CityRow(city, lat, lng, iso2, iso3, population, id) ==
    Row(<<city, city, lat, lng, <<"B", "r">>, iso2, iso3, <<>>, <<>>, population, id>>)

\* id 1 on the equator at 0; id 2 some 5 km east of it; id 3 some 15 km east
RowA == CityRow(<<"A">>, <<"0">>, <<"0">>, <<"b", "r">>, <<"b", "r", "a">>, <<"7">>, <<"1">>)
RowB == CityRow(<<"B">>, <<"0">>, <<"0", ".", "0", "4", "5">>, <<"B", "R">>, <<"B", "R", "A">>,
                <<"8">>, <<"2">>)
RowC == CityRow(<<"C">>, <<"0">>, <<"0", ".", "1", "3", "5">>, <<"B", "R">>, <<"B", "R", "A">>,
                <<>>, <<"3">>)
\* id 1 again, quoted and padded, other columns changed, population blank
RowA2 == CityRow(<<"\"", "Z", "\"">>, <<"0">>, <<"-", "0", ".", "0", "4", "5">>, <<"B", "R">>,
                 <<"B", "R", "A">>, <<" ">>, <<" ", "\"", "1", "\"">>)
\* passes row validation, yet its iso2 is None
RowNoIso == CityRow(<<"N">>, <<"0">>, <<"0", ".", "0", "9">>, <<>>, <<"B", "R", "A">>,
                    <<"9">>, <<"2">>)
\* fails row validation: the id is no integer
RowBadId == CityRow(<<"X">>, <<"0">>, <<"0">>, <<"B", "R">>, <<"B", "R", "A">>, <<"1">>,
                    <<"x", "1">>)

RowCatalog == {RowA, RowB, RowC, RowA2, RowNoIso, RowBadId}

RECURSIVE SeqsUpTo(_, _)
SeqsUpTo(S, n) ==
    IF n = 0 THEN {<<>>}
    ELSE LET shorter == SeqsUpTo(S, n - 1)
         IN  shorter \cup {Append(q, x) : q \in {t \in shorter : Len(t) = n - 1}, x \in S}

CsvName == <<"w", ".", "c", "s", "v">>
TxtName == <<"c", "s", "v", ".", "t", "x", "t">>

Upload(filename, decodable, records) ==
    [filename |-> filename, decodable |-> decodable, records |-> records]

\* Bodies with a header and up to MaxRows data rows, read to the end or up
\* to a record the reader raises on (what follows it is never read)
RowLists == SeqsUpTo(RowCatalog, MaxRows)
DataUploads ==
    {Upload(CsvName, TRUE, <<Header>> \o rows \o tail) : rows \in RowLists, tail \in {<<>>, <<Raises>>}}
\* Malformed uploads: wrong suffix, undecodable, empty, no header line
OddUploads ==
    {Upload(TxtName, TRUE, <<Header, RowA>>),
     Upload(CsvName, FALSE, <<>>),
     Upload(CsvName, TRUE, <<>>),
     Upload(CsvName, TRUE, <<EmptyLine, RowA>>),
     Upload(CsvName, TRUE, <<Raises>>)}
Uploads == DataUploads \cup OddUploads


----------------------------------------------------------------------------
(***************************************************************************)
(* State.  Each request is handled by one worker with its own session; a   *)
(* worker's record holds the locals of the handler it runs.  Workers are   *)
(* attached to a database; store[d] is the committed table of database d.  *)
(*   req[w].pending is the uncommitted statement of w's session: its rows  *)
(* are locked against the upserts of other sessions until commit/rollback. *)
(*   History kept for the properties: req[w].events (every error event),  *)
(* req[w].flushes (the outcome of every flush), req[w].flushed (the rows  *)
(* handed to every flush), commitLog[d] (the statements committed to d    *)
(* since d last had no request in progress).                               *)
(***************************************************************************)
VARIABLES store, req, commitLog, dbOf, imports, last, split

vars == <<store, req, commitLog, dbOf, imports, last, split>>

Workers == {1, 2}
DBs == {1, 2}

NoUpload == Upload(<<>>, TRUE, <<>>)

IdleReq ==
    [pc |-> "idle", kind |-> "none", upload |-> NoUpload, pos |-> 0,
     inserted_count |-> 0, updated_count |-> 0, skipped_count |-> 0,
     errors |-> <<>>, current_batch |-> <<>>, line_number |-> 0,
     existing_ids |-> {}, pending |-> <<>>, final |-> FALSE,
     status |-> 0, detail |-> "",
     count |-> 0, data |-> <<>>, missing |-> <<>>, city_ids |-> <<>>, radius_km |-> 0,
     country |-> <<>>, prefix |-> <<>>, limit |-> 0, offset |-> 0,
     events |-> <<>>, flushes |-> <<>>, flushed |-> <<>>, store0 |-> {},
     rerun |-> FALSE, priorOk |-> TRUE, replay |-> <<>>]

\* the totals of the summaries of the files a client sent one batch at a time
NoSplit == [sent |-> 0, inserted |-> 0, updated |-> 0, skipped |-> 0, total_processed |-> 0]

NoLast == [upload |-> NoUpload, ok |-> TRUE, by |-> 0]

Table(w) == store[dbOf[w]]

\* the data records of an upload: all but the header
DataRowsOf(upload) == Tail(upload.records)

\* a rollback that leaves the uncommitted statement in the session
RollbackNothing(r) == r

\* session.rollback(): the uncommitted statement is dropped
Rollback(r) == [r EXCEPT !.pending = <<>>]

\* a handler that rolls back and does not raise: the summary is returned
OnTopLevelErrorSwallowed(r, e) ==
    [r EXCEPT !.pending = <<>>, !.pc = "done", !.status = 200, !.detail = e]

\* lines 269-271: rollback, and the request ends as a server error
OnTopLevelError(r, e) ==
    [Rollback(r) EXCEPT !.pc = "done", !.status = 500, !.detail = e]

\* the cap tested with <= for <
AddExampleOffByOne(errors, msg) ==
    IF Len(errors) <= MAX_ERROR_EXAMPLES THEN Append(errors, msg) ELSE errors

\* if len(errors) < MAX_ERROR_EXAMPLES: errors.append(msg)
AddExample(errors, msg) ==
    IF Len(errors) < MAX_ERROR_EXAMPLES THEN Append(errors, msg) ELSE errors

\* lines 273-280: the summary is returned
Return(r) == [r EXCEPT !.pc = "done", !.status = 200]

----------------------------------------------------------------------------
(***************************************************************************)
(* import_cities                                                           *)
(***************************************************************************)
\* lines 205-225: the suffix check, the locals, read and decode, the header.
\* The HTTPException of line 225 is raised inside the try block of line 215
\* and HTTPException is an Exception, so the handler of line 269 catches it.
Begin(r, upload) ==
    LET r0 == [r EXCEPT !.kind = "import", !.upload = upload]
    IN  IF ~EndsWith(upload.filename, <<".", "c", "s", "v">>)
        THEN [r0 EXCEPT !.pc = "done", !.status = 400, !.detail = "Arquivo deve ser CSV"]
        ELSE IF ~upload.decodable
        THEN OnTopLevelError(r0, "UnicodeDecodeError")
        ELSE IF upload.records # <<>> /\ IsRaise(upload.records[1])
        THEN OnTopLevelError(r0, "csv.Error")
        ELSE IF upload.records = <<>> \/ upload.records[1].fields = <<>>
        THEN OnTopLevelError(r0, "400: CSV vazio ou sem header")
        ELSE [r0 EXCEPT !.pc = "loop", !.pos = 1]

\* lines 232-236: a row that did not parse
OnRowError(r, error) ==
    [r EXCEPT !.skipped_count = @ + 1,
              !.errors = AddExample(@, error),
              !.events = Append(@, [msg |-> error, rows |-> 1])]

\* a batch that is flushed only once it has outgrown BATCH_SIZE
OnRowParsedLate(r, parsed) ==
    LET batch == Append(r.current_batch, parsed)
    IN  [r EXCEPT !.current_batch = batch,
                  !.pc = IF Len(batch) > BATCH_SIZE THEN "probe" ELSE "loop",
                  !.final = FALSE]

\* lines 238-242: a parsed row joins the batch; a full batch is flushed
OnRowParsed(r, parsed) ==
    LET batch == Append(r.current_batch, parsed)
    IN  [r EXCEPT !.current_batch = batch,
                  !.pc = IF Len(batch) >= BATCH_SIZE THEN "probe" ELSE "loop",
                  !.final = FALSE]

\* lines 228-242: one turn of the loop, up to the flush
ReadRow(r) ==
    LET rec == r.upload.records[r.pos + 1]
        n == r.line_number + 1
        parsed == parse_csv_row(rec.fields, n)
        r1 == [r EXCEPT !.pos = @ + 1, !.line_number = n]
    IN  IF IsRaise(rec) THEN OnTopLevelError(r, "csv.Error")
        ELSE IF IsError(parsed) THEN OnRowError(r1, parsed.error)
        ELSE OnRowParsed(r1, parsed)

\* lines 256-257 and 273: the input is exhausted
EndOfRows(r) ==
    IF r.current_batch # <<>> THEN [r EXCEPT !.pc = "probe", !.final = TRUE] ELSE Return(r)

\* the message of line 250 or of line 264
BatchErrorMsg(r, e) ==
    IF r.final THEN ErrorMsg("last batch", 0, <<e>>) ELSE ErrorMsg("batch", r.line_number, <<e>>)

\* where the handler goes on after a flush, successful or not
AfterFlush(r) == IF r.final THEN Return(r) ELSE [r EXCEPT !.pc = "loop"]

\* a failed batch whose rows are not counted as skipped
OnBatchErrorUncounted(r, e) ==
    LET msg == BatchErrorMsg(r, e)
        r1 == [Rollback(r) EXCEPT
                  !.errors = AddExample(@, msg),
                  !.current_batch = IF r.final THEN @ ELSE <<>>,
                  !.events = Append(@, [msg |-> msg, rows |-> Len(r.current_batch)]),
                  !.flushes = Append(@, e),
                  !.flushed = Append(@, r.current_batch)]
    IN  AfterFlush(r1)

\* lines 248-254 and 262-267: the write of the batch raised e
OnBatchError(r, e) ==
    LET msg == BatchErrorMsg(r, e)
        r1 == [Rollback(r) EXCEPT
                  !.errors = AddExample(@, msg),
                  !.skipped_count = @ + Len(r.current_batch),
                  !.current_batch = IF r.final THEN @ ELSE <<>>,
                  !.events = Append(@, [msg |-> msg, rows |-> Len(r.current_batch)]),
                  !.flushes = Append(@, e),
                  !.flushed = Append(@, r.current_batch)]
    IN  AfterFlush(r1)

\* a flush that leaves the written rows in current_batch
OnBatchDoneKeepsBatch(r) ==
    LET r1 == [r EXCEPT
                  !.inserted_count = @ + CountInserted(r.current_batch, r.existing_ids),
                  !.updated_count = @ + CountUpdated(r.current_batch, r.existing_ids),
                  !.pending = <<>>,
                  !.flushes = Append(@, "ok"),
                  !.flushed = Append(@, r.current_batch)]
    IN  IF r.final THEN [r1 EXCEPT !.pc = "done", !.status = 200] ELSE [r1 EXCEPT !.pc = "loop"]

\* lines 244-247 and 259-261: upsert_cities_batch returned
OnBatchDone(r) ==
    LET r1 == [r EXCEPT
                  !.inserted_count = @ + CountInserted(r.current_batch, r.existing_ids),
                  !.updated_count = @ + CountUpdated(r.current_batch, r.existing_ids),
                  !.current_batch = IF r.final THEN @ ELSE <<>>,
                  !.pending = <<>>,
                  !.flushes = Append(@, "ok"),
                  !.flushed = Append(@, r.current_batch)]
    IN  AfterFlush(r1)


----------------------------------------------------------------------------
(***************************************************************************)
(* upsert_cities_batch, statement by statement.  A statement that fails    *)
(* raises into the handler of import_cities (OnBatchError).  Besides the   *)
(* errors the rows themselves cause, execute and commit may fail for a     *)
(* cause outside the program (the connection): fault.  A request that      *)
(* replays a flush history takes its faults from it.                       *)
(***************************************************************************)
FlushNo(r) == Len(r.flushes) + 1
Faults(r, kind) ==
    IF r.replay = <<>> THEN BOOLEAN
    ELSE {FlushNo(r) <= Len(r.replay) /\ r.replay[FlushNo(r)] = kind}

\* ids a session's uncommitted statements have written (and hold locked)
RECURSIVE PendingIds(_)
PendingIds(pending) ==
    IF pending = <<>> THEN {} ELSE BatchIds(Head(pending)) \cup PendingIds(Tail(pending))

\* the table with the statements of a transaction applied in order
RECURSIVE Apply(_, _)
Apply(table, pending) ==
    IF pending = <<>> THEN table
    ELSE Apply(OnConflictDoUpdate(table, Head(pending)), Tail(pending))

\* another session of the same database holds a row of the batch locked
Blocked(w) ==
    \E v \in Workers \ {w} :
        /\ dbOf[v] = dbOf[w]
        /\ PendingIds(req[v].pending) \cap BatchIds(req[w].current_batch) # {}

\* lines 122-123
Probe(w) ==
    /\ req[w].pc = "probe"
    /\ req' = [req EXCEPT ![w] =
                   [@ EXCEPT !.existing_ids = ExistingIds(Table(w), req[w].current_batch),
                             !.pc = "execute"]]
    /\ UNCHANGED <<store, commitLog, dbOf, imports, last, split>>

\* lines 126-165
Execute(w) ==
    /\ req[w].pc = "execute"
    /\ ~Blocked(w)
    /\ LET r == req[w]
           values == Values(r.current_batch)
           e == StatementError(values)
       IN  \/ /\ e # "ok"
              /\ req' = [req EXCEPT ![w] = OnBatchError(r, e)]
           \/ /\ e = "ok"
              /\ \E fault \in Faults(r, "ExecuteError") :
                    req' = [req EXCEPT ![w] =
                               IF fault THEN OnBatchError(r, "ExecuteError")
                               ELSE [r EXCEPT !.pending = Append(@, values), !.pc = "commit"]]
    /\ UNCHANGED <<store, commitLog, dbOf, imports, last, split>>

\* lines 166-172
Commit(w) ==
    /\ req[w].pc = "commit"
    /\ LET r == req[w]
       IN  \E fault \in Faults(r, "CommitError") :
              IF fault
              THEN /\ req' = [req EXCEPT ![w] = OnBatchError(r, "CommitError")]
                   /\ UNCHANGED <<store, commitLog>>
              ELSE /\ store' = [store EXCEPT ![dbOf[w]] = Apply(@, r.pending)]
                   /\ commitLog' = [commitLog EXCEPT ![dbOf[w]] =
                                       Append(@, [by |-> w, values |-> r.pending])]
                   /\ req' = [req EXCEPT ![w] = OnBatchDone(r)]
    /\ UNCHANGED <<dbOf, imports, last, split>>

\* import_cities is called with an upload; a client that is resending its
\* file (last) sends that file
StartImport(w, upload) ==
    /\ req[w].pc = "idle"
    /\ last.by # 0 => upload = last.upload
    /\ last' = NoLast
    /\ req' = [req EXCEPT ![w] =
                  Begin([IdleReq EXCEPT !.store0 = Table(w),
                                        !.rerun = last.by # 0,
                                        !.priorOk = last.ok],
                        upload)]
    /\ UNCHANGED <<store, commitLog, dbOf, imports, split>>

Read(w) ==
    /\ req[w].pc = "loop"
    /\ req[w].pos < Len(req[w].upload.records)
    /\ req' = [req EXCEPT ![w] = ReadRow(@)]
    /\ UNCHANGED <<store, commitLog, dbOf, imports, last, split>>

End(w) ==
    /\ req[w].pc = "loop"
    /\ req[w].pos = Len(req[w].upload.records)
    /\ req' = [req EXCEPT ![w] = EndOfRows(@)]
    /\ UNCHANGED <<store, commitLog, dbOf, imports, last, split>>

\* the response is sent and the worker is free again; the client of an
\* import may go on to send the same file once more
Finish(w) ==
    /\ req[w].pc = "done"
    /\ req' = [req EXCEPT ![w] = IdleReq]
    /\ \E resend \in BOOLEAN :
          last' = IF /\ resend /\ req[w].kind = "import"
                     /\ \A v \in Workers \ {w} : req[v].pc = "idle"
                  THEN [upload |-> req[w].upload,
                        ok |-> \A i \in 1..Len(req[w].flushes) : req[w].flushes[i] = "ok",
                        by |-> w]
                  ELSE NoLast
    /\ commitLog' = IF \A v \in Workers \ {w} : dbOf[v] = dbOf[w] => req[v].pc = "idle"
                    THEN [commitLog EXCEPT ![dbOf[w]] = <<>>]
                    ELSE commitLog
    /\ UNCHANGED <<store, dbOf, imports, split>>

----------------------------------------------------------------------------
(***************************************************************************)
(* get_cities_within_radius.  A select without ORDER BY returns the rows   *)
(* of the table in an order the store chooses: rows is the table in that   *)
(* order.  radius_km is a whole number of kilometres here.                 *)
(***************************************************************************)
SeqToSet(q) == {q[i] : i \in 1..Len(q)}

\* the orders in which the store may return the rows of a table
Orders(table) ==
    {q \in [1..Cardinality(table) -> table] : SeqToSet(q) = table}

\* list(ids) as a set happens to iterate: here from the greatest id down
RECURSIVE Unsorted(_)
Unsorted(ids) ==
    IF ids = {} THEN <<>>
    ELSE LET greatest == CHOOSE i \in ids : \A j \in ids : i >= j
         IN  <<greatest>> \o Unsorted(ids \ {greatest})

\* sorted(ids)
RECURSIVE Sorted(_)
Sorted(ids) ==
    IF ids = {} THEN <<>>
    ELSE LET least == CHOOSE i \in ids : \A j \in ids : i <= j
         IN  <<least>> \o Sorted(ids \ {least})

\* line 401
WithinRadius(ref_city, city, radius_km) ==
    haversine_distance(ref_city.lat, ref_city.lng, city.lat, city.lng) <= radius_km * 1000

\* the scan with a list for the dict: a city is added for every reference
\* city it is near
RECURSIVE ScanCitiesIntoList(_, _, _, _)
ScanCitiesIntoList(ref_city, all_cities, radius_km, found) ==
    IF all_cities = <<>> THEN found
    ELSE LET city == Head(all_cities)
             add == city.id # ref_city.id /\ WithinRadius(ref_city, city, radius_km)
         IN  ScanCitiesIntoList(ref_city, Tail(all_cities), radius_km,
                                IF add THEN Append(found, city) ELSE found)

\* lines 389-404 for one reference city: found is the dict so far, in
\* insertion order
RECURSIVE ScanCities(_, _, _, _)
ScanCities(ref_city, all_cities, radius_km, found) ==
    IF all_cities = <<>> THEN found
    ELSE LET city == Head(all_cities)
             add == /\ city.id # ref_city.id
                    /\ WithinRadius(ref_city, city, radius_km)
                    /\ \A i \in 1..Len(found) : found[i].id # city.id
         IN  ScanCities(ref_city, Tail(all_cities), radius_km,
                        IF add THEN Append(found, city) ELSE found)

\* lines 386-404
RECURSIVE ScanReferences(_, _, _, _)
ScanReferences(reference_cities, all_cities, radius_km, found) ==
    IF reference_cities = <<>> THEN found
    ELSE ScanReferences(Tail(reference_cities), all_cities, radius_km,
                        ScanCities(Head(reference_cities), all_cities, radius_km, found))

InList(city_ids) == SeqToSet(city_ids)

\* lines 366-409: the response to a query over the rows as the store returns them
get_cities_within_radius(r, rows, city_ids, radius_km) ==
    LET IsRef(c) == c.id \in InList(city_ids)
        reference_cities == SelectSeq(rows, IsRef)
        found_ids == {reference_cities[i].id : i \in 1..Len(reference_cities)}
        result == ScanReferences(reference_cities, rows, radius_km, <<>>)
        r0 == [r EXCEPT !.kind = "radius", !.pc = "done",
                        !.city_ids = city_ids, !.radius_km = radius_km]
    IN  IF reference_cities = <<>>
        THEN [r0 EXCEPT !.status = 404, !.detail = "No reference cities found"]
        ELSE IF Len(reference_cities) < Len(city_ids)
        THEN [r0 EXCEPT !.status = 404, !.detail = "Some city IDs were not found",
                        !.missing = Sorted(InList(city_ids) \ found_ids)]
        ELSE [r0 EXCEPT !.status = 200, !.count = Len(result), !.data = result]

QueryIds == {1, 2, 3}
Radii == {10, 12}
CityIdLists == SeqsUpTo(QueryIds, MaxRefs) \ {<<>>}

\* the queries are asked between the uploads of different files
RadiusQuery(w, city_ids, radius_km) ==
    /\ req[w].pc = "idle"
    /\ last.by = 0
    /\ \E rows \in Orders(Table(w)) :
          req' = [req EXCEPT ![w] = get_cities_within_radius(IdleReq, rows, city_ids, radius_km)]
    /\ UNCHANGED <<store, commitLog, dbOf, imports, last, split>>

----------------------------------------------------------------------------
(***************************************************************************)
(* Spec: one worker serves the requests of one database, one at a time.    *)
(***************************************************************************)
Init ==
    /\ store = [d \in DBs |-> {}]
    /\ req = [w \in Workers |-> IdleReq]
    /\ commitLog = [d \in DBs |-> <<>>]
    /\ dbOf = [w \in Workers |-> 1]
    /\ imports = 0
    /\ last = NoLast
    /\ split = NoSplit

Next ==
    \/ \E upload \in Uploads : StartImport(1, upload)
    \/ Read(1)
    \/ End(1)
    \/ Probe(1)
    \/ Execute(1)
    \/ Commit(1)
    \/ Finish(1)
    \/ \E city_ids \in CityIdLists, radius_km \in Radii : RadiusQuery(1, city_ids, radius_km)

Spec == Init /\ [][Next]_vars


----------------------------------------------------------------------------
(***************************************************************************)
(* SpecConc: two workers import into one database at the same time.        *)
(***************************************************************************)
ConcUploads ==
    {Upload(CsvName, TRUE, <<Header>> \o rows) :
        rows \in {<<RowA, RowB, RowC>>, <<RowA2, RowC>>, <<RowA2, RowB, RowA>>, <<RowB>>}}

\* an upload of the MaxImports uploads of the run
StartCounted(w, upload) ==
    /\ imports < MaxImports
    /\ imports' = imports + 1
    /\ req[w].pc = "idle"
    /\ req' = [req EXCEPT ![w] = Begin([IdleReq EXCEPT !.store0 = Table(w)], upload)]
    /\ UNCHANGED <<store, commitLog, dbOf, last, split>>

NextConc ==
    \E w \in Workers :
        \/ \E upload \in ConcUploads : StartCounted(w, upload)
        \/ Read(w)
        \/ End(w)
        \/ Probe(w)
        \/ Execute(w)
        \/ Commit(w)
        \/ Finish(w)

SpecConc == Init /\ [][NextConc]_vars

----------------------------------------------------------------------------
(***************************************************************************)
(* SpecSplit: one file of valid rows is imported whole into database 1 by  *)
(* worker 1; the same rows are then imported into database 2 by worker 2   *)
(* as consecutive files, one for each batch of the whole import.  Both     *)
(* databases start with the same contents, and the write of the k-th file  *)
(* meets the fault the k-th batch write of the whole import met.           *)
(***************************************************************************)
ValidCatalog == {RowA, RowB, RowA2, RowNoIso}
SplitRowLists ==
    {q \in SeqsUpTo(ValidCatalog, BATCH_SIZE + 2) : Len(q) > BATCH_SIZE}
SplitUploads == {Upload(CsvName, TRUE, <<Header>> \o rows) : rows \in SplitRowLists}

\* what an earlier import of a file left in the table
SeedStores == {{}, {Value(parse_csv_row(RowA.fields, 1))}}

Chunks(upload) == (Len(DataRowsOf(upload)) + BATCH_SIZE - 1) \div BATCH_SIZE
Chunk(upload, k) ==
    Upload(upload.filename, TRUE,
           <<Header>> \o SubSeq(DataRowsOf(upload), (k - 1) * BATCH_SIZE + 1,
                                Min(k * BATCH_SIZE, Len(DataRowsOf(upload)))))

InitSplit ==
    /\ \E seed \in SeedStores : store = [d \in DBs |-> seed]
    /\ req = [w \in Workers |-> IdleReq]
    /\ commitLog = [d \in DBs |-> <<>>]
    /\ dbOf = [w \in Workers |-> w]
    /\ imports = 0
    /\ last = NoLast
    /\ split = NoSplit

Summary1Done == req[1].kind = "import" /\ req[1].pc = "done" /\ req[1].status = 200

\* the whole file is uploaded
StartWhole(upload) == StartImport(1, upload)

\* the file of the next batch is uploaded, once the whole import has ended
StartChunk ==
    /\ Summary1Done
    /\ req[2].pc = "idle"
    /\ split.sent < Chunks(req[1].upload)
    /\ split' = [split EXCEPT !.sent = @ + 1]
    /\ req' = [req EXCEPT ![2] =
                  Begin([IdleReq EXCEPT !.store0 = Table(2),
                                        !.replay = <<req[1].flushes[split.sent + 1]>>],
                        Chunk(req[1].upload, split.sent + 1))]
    /\ UNCHANGED <<store, commitLog, dbOf, imports, last>>

\* the summary of a batch file is received and added to the totals
FinishChunk ==
    /\ req[2].pc = "done"
    /\ split' = [split EXCEPT !.inserted = @ + req[2].inserted_count,
                              !.updated = @ + req[2].updated_count,
                              !.skipped = @ + req[2].skipped_count,
                              !.total_processed = @ + req[2].line_number]
    /\ req' = [req EXCEPT ![2] = IdleReq]
    /\ commitLog' = [commitLog EXCEPT ![2] = <<>>]
    /\ UNCHANGED <<store, dbOf, imports, last>>

NextSplit ==
    \/ \E upload \in SplitUploads : StartWhole(upload)
    \/ StartChunk
    \/ FinishChunk
    \/ \E w \in Workers :
          \/ Read(w)
          \/ End(w)
          \/ Probe(w)
          \/ Execute(w)
          \/ Commit(w)

SpecSplit == InitSplit /\ [][NextSplit]_vars

----------------------------------------------------------------------------
(***************************************************************************)
(* get_cities.  country and prefix are Optional[str]; the query is         *)
(* select(City) [where country ilike '%country%'] [where city_ascii ilike  *)
(* 'prefix%'] order by country limit .. offset ..  The store returns the   *)
(* matching rows sorted by country; rows of one country come in an order   *)
(* the store chooses anew for every query.                                 *)
(***************************************************************************)
\* s starts with t
StartsWith(s, t) == Len(s) >= Len(t) /\ SubSeq(s, 1, Len(t)) = t

\* t occurs in s
Contains(s, t) ==
    \E i \in 1..(Len(s) + 1) : i + Len(t) - 1 <= Len(s) /\ SubSeq(s, i, i + Len(t) - 1) = t

\* column ILIKE '%text%' and column ILIKE 'text%': the case of letters is ignored
ILikeContains(column, text) == Contains(Upper(column), Upper(text))
ILikePrefix(column, text) == StartsWith(Upper(column), Upper(text))

\* lines 311-315: a filter is applied only for a non-empty parameter
Matching(table, country, prefix) ==
    {c \in table :
        /\ (country # NONE /\ country[1] # <<>>) => ILikeContains(c.country, country[1])
        /\ (prefix # NONE /\ prefix[1] # <<>>) => ILikePrefix(c.city_ascii, prefix[1])}

\* the place of a letter in the alphabet, whatever its case
LetterRank(c) == CHOOSE i \in 1..26 : UpperCase[i] = UpperChar(c)

\* s sorts before t (strings of letters)
RECURSIVE StrLess(_, _)
StrLess(s, t) ==
    IF t = <<>> THEN FALSE
    ELSE IF s = <<>> THEN TRUE
    ELSE IF LetterRank(Head(s)) # LetterRank(Head(t)) THEN LetterRank(Head(s)) < LetterRank(Head(t))
    ELSE StrLess(Tail(s), Tail(t))

\* ORDER BY country: the orders the store may return the rows in
OrderByCountry(rows) ==
    {q \in Orders(rows) : \A i, j \in 1..Len(q) : i < j => ~StrLess(q[j].country, q[i].country)}

\* LIMIT limit OFFSET offset
LimitOffset(q, limit, offset) == SubSeq(q, offset + 1, Min(Len(q), offset + limit))

\* lines 309-320: the response for the order the store answered in
get_cities(r, ordered, country, prefix, limit, offset) ==
    [r EXCEPT !.kind = "list", !.pc = "done", !.status = 200,
              !.country = country, !.prefix = prefix, !.limit = limit, !.offset = offset,
              !.data = LimitOffset(ordered, limit, offset)]

\* a city of another country
RowD == Row(<< <<"D">>, <<"A", "d">>, <<"0">>, <<"1">>, <<"A", "r">>, <<"A", "R">>,
               <<"A", "R", "G">>, <<>>, <<>>, <<>>, <<"4">> >>)

\* the table after an import of the rows
Imported(rows) ==
    OnConflictDoUpdate({}, Values([i \in 1..Len(rows) |-> parse_csv_row(rows[i].fields, i)]))

ListStores == {Imported(<<RowA, RowD>>), Imported(<<RowA, RowB, RowD>>)}
Countries == {NONE, Some(<<"b">>), Some(<<"A">>)}
Prefixes == {NONE, Some(<<"a">>)}
MaxLimit == 2
Limits == 1..MaxLimit
Offsets == 0..MaxLimit

ListCities(w, country, prefix, limit, offset) ==
    /\ req[w].pc = "idle"
    /\ \E ordered \in OrderByCountry(Matching(Table(w), country, prefix)) :
          req' = [req EXCEPT ![w] = get_cities(IdleReq, ordered, country, prefix, limit, offset)]
    /\ UNCHANGED <<store, commitLog, dbOf, imports, last, split>>

(***************************************************************************)
(* SpecList: two clients page through a table that nobody writes to.       *)
(***************************************************************************)
InitList ==
    /\ \E table \in ListStores : store = [d \in DBs |-> table]
    /\ req = [w \in Workers |-> IdleReq]
    /\ commitLog = [d \in DBs |-> <<>>]
    /\ dbOf = [w \in Workers |-> 1]
    /\ imports = 0
    /\ last = NoLast
    /\ split = NoSplit

NextList ==
    \E w \in Workers :
        \/ \E country \in Countries, prefix \in Prefixes, limit \in Limits, offset \in Offsets :
              ListCities(w, country, prefix, limit, offset)
        \/ Finish(w)

SpecList == InitList /\ [][NextList]_vars

----------------------------------------------------------------------------
(***************************************************************************)
(* SpecIso: files whose rows carry iso2/iso3 text of every shape (lower    *)
(* case, longer, shorter, empty) and rewrite the same ids are imported one *)
(* after the other.                                                        *)
(***************************************************************************)
\* id 1 again: iso2 and iso3 in lower case and too long, population blank
RowLongIso == CityRow(<<"L">>, <<"0">>, <<"0", ".", "0", "9">>, <<"b", "r", "a">>,
                      <<"b", "r", "a", "z", "i", "l">>, <<>>, <<"1">>)
\* id 2: iso2 of one character, iso3 of two
RowShortIso == CityRow(<<"S">>, <<"0">>, <<"0", ".", "0", "4", "5">>, <<"b">>, <<"b", "r">>,
                       <<"8">>, <<"2">>)

IsoCatalog == {RowA, RowLongIso, RowShortIso, RowNoIso}
IsoUploads ==
    {Upload(CsvName, TRUE, <<Header>> \o rows) : rows \in SeqsUpTo(IsoCatalog, MaxRows) \ {<<>>}}

\* the response is sent; the client goes on to another file
Respond(w) == Finish(w) /\ last' = NoLast

NextIso ==
    \/ \E upload \in IsoUploads : StartImport(1, upload)
    \/ Read(1)
    \/ End(1)
    \/ Probe(1)
    \/ Execute(1)
    \/ Commit(1)
    \/ Respond(1)

SpecIso == Init /\ [][NextIso]_vars

----------------------------------------------------------------------------
(***************************************************************************)
(* SpecRows: files whose rows fail row validation in every way, next to    *)
(* rows that pass it with a population that is blank or no integer.        *)
(***************************************************************************)
\* a valid row cut to 10 fields, and one with a 12th field
Row10 == Row(SubSeq(RowA.fields, 1, ROW_FIELDS - 1))
Row12 == Row(Append(RowA.fields, <<"x">>))
RowBadLat == CityRow(<<"T">>, <<"n">>, <<"0">>, <<"B", "R">>, <<"B", "R", "A">>, <<"1">>, <<"1">>)
RowBadLng == CityRow(<<"G">>, <<"0">>, <<"1", ".", "2", ".", "3">>, <<"B", "R">>, <<"B", "R", "A">>,
                     <<"1">>, <<"1">>)
\* id 2, valid but for a population that is no integer
RowPopText == CityRow(<<"P">>, <<"0">>, <<"0", ".", "0", "4", "5">>, <<"B", "R">>, <<"B", "R", "A">>,
                      <<"1", ".", "5">>, <<"2">>)

RowsCatalog ==
    {RowA2, RowPopText, EmptyLine, Row10, Row12, RowBadLat, RowBadLng, RowBadId}
RowsUploads ==
    {Upload(CsvName, TRUE, <<Header>> \o rows) : rows \in SeqsUpTo(RowsCatalog, MaxRows) \ {<<>>}}

NextRows ==
    \/ \E upload \in RowsUploads : StartImport(1, upload)
    \/ Read(1)
    \/ End(1)
    \/ Probe(1)
    \/ Execute(1)
    \/ Commit(1)
    \/ Respond(1)

SpecRows == Init /\ [][NextRows]_vars

----------------------------------------------------------------------------
(***************************************************************************)
(* Properties.                                                             *)
(***************************************************************************)
ImportDone(w) == req[w].kind = "import" /\ req[w].pc = "done"
Summary(w) == ImportDone(w) /\ req[w].status = 200
RadiusDone(w) == req[w].kind = "radius" /\ req[w].pc = "done"

\* the data rows of an upload that pass row validation
ValidRows(upload) ==
    {i \in 1..Len(DataRowsOf(upload)) :
        /\ ~IsRaise(DataRowsOf(upload)[i])
        /\ ~IsError(parse_csv_row(DataRowsOf(upload)[i].fields, i))}

AllOk(flushes) == \A i \in 1..Len(flushes) : flushes[i] = "ok"

Malformed(upload) ==
    \/ ~EndsWith(upload.filename, <<".", "c", "s", "v">>)
    \/ upload.decodable /\ upload.records = <<>>
    \/ upload.decodable /\ upload.records # <<>> /\ ~IsRaise(upload.records[1])
          /\ upload.records[1].fields = <<>>

\* C3: a malformed upload (suffix other than .csv, empty content, no header
\* line) ends as a client error (400), before any row is parsed and with the
\* store unchanged; never as a server error or a summary.
C3_MalformedIsClientError ==
    \A w \in Workers :
        ImportDone(w) /\ Malformed(req[w].upload) =>
            /\ req[w].status = 400
            /\ req[w].line_number = 0
            /\ Table(w) = req[w].store0

\* the table a request must leave behind when it ran alone: the table it
\* found with the batches whose write succeeded applied in flush order
RECURSIVE ApplyCommitted(_, _, _)
ApplyCommitted(table, flushed, flushes) ==
    IF flushed = <<>> THEN table
    ELSE ApplyCommitted(IF Head(flushes) = "ok"
                        THEN (table \ {c \in table : c.id \in BatchIds(Head(flushed))})
                                 \cup {Value(Head(flushed)[i]) : i \in 1..Len(Head(flushed))}
                        ELSE table,
                        Tail(flushed), Tail(flushes))

FlushFails(w) ==
    /\ Len(req'[w].flushes) = Len(req[w].flushes) + 1
    /\ req'[w].flushes[Len(req'[w].flushes)] # "ok"

\* the step of a failed batch write: nothing of it is in the store, the
\* batch is counted as skipped, one example at most joins the errors, the
\* batch is dropped and the import goes on
FailedBatchStep(w) ==
    LET r == req[w]
        n == req'[w]
    IN  /\ store' = store
        /\ n.pending = <<>>
        /\ n.skipped_count = r.skipped_count + Len(r.current_batch)
        /\ n.inserted_count = r.inserted_count
        /\ n.updated_count = r.updated_count
        /\ Len(n.errors) = Min(Len(r.errors) + 1, MAX_ERROR_EXAMPLES)
        /\ SubSeq(n.errors, 1, Len(r.errors)) = r.errors
        /\ Len(r.errors) < MAX_ERROR_EXAMPLES =>
               n.errors[Len(n.errors)].kind \in {"batch", "last batch"}
        /\ IF r.final
           THEN n.pc = "done" /\ n.status = 200
           ELSE n.pc = "loop" /\ n.current_batch = <<>> /\ n.status = 0
        /\ n.pos = r.pos

\* C4: a failed batch write is recovered locally: the transaction is rolled
\* back and the store holds none of the batch's writes, skipped grows by the
\* batch's size while inserted and updated stay, at most one error example
\* is added (under the cap), the rows are not carried into a later batch,
\* and the import goes on to the remaining rows and ends with a summary.
C4_FailedBatchRecovered ==
    /\ [][\A w \in Workers : FlushFails(w) => FailedBatchStep(w)]_vars
    /\ [](\A w \in Workers :
            Summary(w) => Table(w) = ApplyCommitted(req[w].store0, req[w].flushed, req[w].flushes))

\* a summary of an import whose first batch failed at commit and whose next
\* batch was written
C4_Witness ==
    \E w \in Workers :
        /\ Summary(w)
        /\ req[w].flushes = <<"CommitError", "ok">>
        /\ req[w].skipped_count = BATCH_SIZE
        /\ req[w].inserted_count > 0

\* the reader raised while the handler was reading the records
TopLevelAbort(w) ==
    /\ ImportDone(w)
    /\ req[w].pos < Len(req[w].upload.records)
    /\ EndsWith(req[w].upload.filename, <<".", "c", "s", "v">>)
    /\ IsRaise(req[w].upload.records[req[w].pos + 1])

\* C5: an import that aborts on a top-level exception after k committed
\* batches ends as a server error (500); the rows of the k committed batches
\* are in the store and no row of the unflushed batch is there by this
\* import.
C5_PartialSuccess ==
    \A w \in Workers :
        TopLevelAbort(w) =>
            /\ req[w].status = 500
            /\ req[w].pending = <<>>
            /\ Table(w) = ApplyCommitted(req[w].store0, req[w].flushed, req[w].flushes)
            /\ \A i \in 1..Len(req[w].current_batch) :
                   req[w].current_batch[i].id \in StoredIds(Table(w)) =>
                       \E c \in Table(w) :
                           /\ c.id = req[w].current_batch[i].id
                           /\ \/ c \in req[w].store0
                              \/ \E k \in 1..Len(req[w].flushed) :
                                     c \in {Value(req[w].flushed[k][j]) : j \in 1..Len(req[w].flushed[k])}

\* an abort after one committed batch with a row waiting in the next batch
C5_Witness ==
    \E w \in Workers :
        /\ TopLevelAbort(w) /\ req[w].status = 500
        /\ req[w].flushes = <<"ok">>
        /\ Len(req[w].current_batch) = 1
        /\ req[w].current_batch[1].id \notin StoredIds(Table(w))


\* the records of a table within radius_km of a reference record other
\* than themselves
Near(table, city_ids, radius_km) ==
    {c \in table :
        \E r \in table :
            /\ r.id \in InList(city_ids)
            /\ r.id # c.id
            /\ haversine_distance(r.lat, r.lng, c.lat, c.lng) <= radius_km * 1000}

AllResolve(w) == InList(req[w].city_ids) \subseteq StoredIds(Table(w))

\* C7: for a radius query whose reference ids all resolve, a stored record
\* is in the returned data if and only if some reference record of another
\* id lies within radius_km of it.
C7_ExactlyTheNearSet ==
    \A w \in Workers :
        RadiusDone(w) /\ AllResolve(w) =>
            /\ req[w].status = 200
            /\ SeqToSet(req[w].data) = Near(Table(w), req[w].city_ids, req[w].radius_km)

\* C8: in every successful radius response no two entries of data have the
\* same id, and count is the number of entries of data.
C8_Deduplicated ==
    \A w \in Workers :
        RadiusDone(w) /\ req[w].status = 200 =>
            /\ \A i, j \in 1..Len(req[w].data) : i # j => req[w].data[i].id # req[w].data[j].id
            /\ req[w].count = Len(req[w].data)

\* a response holding a record that lies within the radius of two
\* reference records
C8_Witness ==
    \E w \in Workers :
        /\ RadiusDone(w) /\ req[w].status = 200
        /\ \E i \in 1..Len(req[w].data) :
              Cardinality({r \in Table(w) :
                              /\ r.id \in InList(req[w].city_ids)
                              /\ r.id # req[w].data[i].id
                              /\ WithinRadius(r, req[w].data[i], req[w].radius_km)}) >= 2

Unresolved(w) == InList(req[w].city_ids) \ StoredIds(Table(w))

\* C9: a radius query with a requested id that is not in the store ends as
\* not found (404) and returns no data, also when other ids resolve; when
\* some ids resolve and some do not, the error names exactly the unresolved
\* ids, in ascending order.
C9_UnresolvedFailsQuery ==
    \A w \in Workers :
        RadiusDone(w) /\ Unresolved(w) # {} =>
            /\ req[w].status = 404
            /\ req[w].data = <<>> /\ req[w].count = 0
            /\ Unresolved(w) # InList(req[w].city_ids) =>
                  /\ SeqToSet(req[w].missing) = Unresolved(w)
                  /\ \A i, j \in 1..Len(req[w].missing) :
                         i < j => req[w].missing[i] < req[w].missing[j]

\* one id resolves and two do not, asked for in descending order
C9_Witness ==
    \E w \in Workers :
        /\ RadiusDone(w) /\ req[w].status = 404
        /\ Len(req[w].missing) = 2
        /\ \E i \in 1..2 : req[w].city_ids[i] > req[w].city_ids[i + 1]
                              /\ req[w].city_ids[i] \in Unresolved(w)
                              /\ req[w].city_ids[i + 1] \in Unresolved(w)

RECURSIVE SumRows(_)
SumRows(events) == IF events = <<>> THEN 0 ELSE Head(events).rows + SumRows(Tail(events))

\* C10: at every point of an import the errors list has at most
\* MAX_ERROR_EXAMPLES entries and is the first entries of the error events
\* seen so far, row errors and batch errors alike; every event, also past
\* the cap, adds its rows to skipped.
C10_FirstErrorsKept ==
    \A w \in Workers :
        req[w].kind = "import" =>
            /\ Len(req[w].errors) = Min(Len(req[w].events), MAX_ERROR_EXAMPLES)
            /\ \A i \in 1..Len(req[w].errors) : req[w].errors[i] = req[w].events[i].msg
            /\ req[w].skipped_count = SumRows(req[w].events)

\* more events than the cap, the one past the cap a failed batch
C10_Witness ==
    \E w \in Workers :
        /\ Summary(w)
        /\ Len(req[w].events) > MAX_ERROR_EXAMPLES
        /\ req[w].events[Len(req[w].events)].msg.kind = "last batch"
        /\ req[w].events[1].msg.kind = "id"
        /\ req[w].skipped_count = Len(req[w].events)


\* every import of the split run has ended
SplitDone ==
    /\ Summary1Done
    /\ split.sent = Chunks(req[1].upload)
    /\ req[2].pc = "idle"

\* C2: from the same store contents, importing one file of N > BATCH_SIZE
\* valid rows yields the same total counts (inserted, updated, skipped,
\* total_processed) and the same final store contents as importing the same
\* rows as consecutive files of one batch each.
C2_BatchBoundaryTransparent ==
    SplitDone =>
        /\ split.inserted = req[1].inserted_count
        /\ split.updated = req[1].updated_count
        /\ split.skipped = req[1].skipped_count
        /\ split.total_processed = req[1].line_number
        /\ store[2] = store[1]

\* a split run of two full batches in which rows were inserted, rows were
\* updated and a batch write failed
C2_Witness ==
    /\ SplitDone
    /\ split.sent = 2
    /\ req[1].line_number = 2 * BATCH_SIZE
    /\ split.inserted > 0 /\ split.updated > 0 /\ split.skipped > 0

\* the statements of a commit log that wrote the id, as <<entry, statement>>
WritesOf(log, id) ==
    {p \in (1..Len(log)) \X (1..BATCH_SIZE + 1) :
        /\ p[2] <= Len(log[p[1]].values)
        /\ id \in BatchIds(log[p[1]].values[p[2]])}
Later(p, q) == p[1] > q[1] \/ (p[1] = q[1] /\ p[2] >= q[2])
LastWrite(log, id) ==
    LET p == CHOOSE p \in WritesOf(log, id) : \A q \in WritesOf(log, id) : Later(p, q)
        values == log[p[1]].values[p[2]]
    IN  values[CHOOSE i \in 1..Len(values) : values[i].id = id]

BothDone == \A w \in Workers : ImportDone(w)

\* C6: however two concurrent imports interleave, once both have ended the
\* store holds exactly one record for every id written, and it is, in all
\* its columns, the row of the batch upsert of that id that committed last;
\* an id no committed batch wrote is as it was.
C6_LastCommitWins ==
    BothDone /\ dbOf[1] = dbOf[2] =>
        LET log == commitLog[dbOf[1]]
            table == store[dbOf[1]]
        IN  /\ \A c, d \in table : c.id = d.id => c = d
            /\ \A id \in QueryIds :
                  IF WritesOf(log, id) # {}
                  THEN {c \in table : c.id = id} = {LastWrite(log, id)}
                  ELSE {c \in table : c.id = id} = {c \in req[1].store0 : c.id = id}

\* both imports wrote id 1 with different columns, and the worker whose
\* batch committed first also committed the last batch
C6_Witness ==
    /\ BothDone
    /\ LET log == commitLog[1]
       IN  /\ Len(log) = 3
           /\ log[1].by # log[2].by /\ log[3].by = log[1].by
           /\ 1 \in BatchIds(log[1].values[1]) \cap BatchIds(log[2].values[1])
           /\ \E c \in store[1] : c.id = 1 /\ c = LastWrite(log, 1)
           /\ Cardinality({LastWrite(SubSeq(log, 1, k), 1) : k \in 1..2}) = 2

ListDone(w) == req[w].kind = "list" /\ req[w].pc = "done"
SameFilters(v, w) == req[v].country = req[w].country /\ req[v].prefix = req[w].prefix
Window(w) == (req[w].offset + 1)..(req[w].offset + req[w].limit)

\* C11: with no write between two get_cities calls of the same filters,
\* windows that do not overlap return no record in common, the same window
\* returns the same records in the same order, and two consecutive windows
\* that cover the whole range return every matching record exactly once.
C11_PagesDisjointAndStable ==
    \A v, w \in Workers :
        (v # w /\ ListDone(v) /\ ListDone(w) /\ SameFilters(v, w)) =>
            /\ Window(v) \cap Window(w) = {} =>
                  SeqToSet(req[v].data) \cap SeqToSet(req[w].data) = {}
            /\ Window(v) = Window(w) => req[v].data = req[w].data
            /\ (/\ req[v].offset = 0
                /\ req[w].offset = req[v].limit
                /\ Cardinality(Matching(Table(v), req[v].country, req[v].prefix))
                      <= req[w].offset + req[w].limit) =>
                  /\ SeqToSet(req[v].data \o req[w].data)
                        = Matching(Table(v), req[v].country, req[v].prefix)
                  /\ Len(req[v].data \o req[w].data)
                        = Cardinality(Matching(Table(v), req[v].country, req[v].prefix))

IsUpper(s) == Upper(s) = s

\* C12: after any sequence of imports every stored record has an iso2 of
\* exactly 2 characters and an iso3 of exactly 3 characters, both upper case.
C12_IsoWellFormed ==
    \A d \in DBs : \A c \in store[d] :
        /\ c.iso2 # NONE /\ Len(c.iso2[1]) = ISO2_LEN /\ IsUpper(c.iso2[1])
        /\ c.iso3 # NONE /\ Len(c.iso3[1]) = ISO3_LEN /\ IsUpper(c.iso3[1])

\* w's batch write commits in this step
CommitStep(w) ==
    /\ req[w].pc = "commit"
    /\ Len(req'[w].flushes) = Len(req[w].flushes) + 1
    /\ req'[w].flushes[Len(req'[w].flushes)] = "ok"

\* every non-key column of the stored record c is that of the value v
ColumnsEqual(c, v) ==
    /\ c.city = v.city /\ c.city_ascii = v.city_ascii
    /\ c.lat = v.lat /\ c.lng = v.lng
    /\ c.country = v.country /\ c.iso2 = v.iso2 /\ c.iso3 = v.iso3
    /\ c.admin_name = v.admin_name /\ c.capital = v.capital
    /\ c.population = v.population

OneRecordPerId == \A d \in DBs : \A c1, c2 \in store[d] : c1.id = c2.id => c1 = c2

\* C13: the store never holds two records of one id; right after a batch
\* commits, the stored record of every row of the batch has every non-key
\* column equal to the incoming length-clamped value (a null included), and
\* the records of other ids are as they were.
C13_UpsertInPlace ==
    /\ []OneRecordPerId
    /\ [][\A w \in Workers :
            CommitStep(w) =>
                LET batch == req[w].current_batch
                    d == dbOf[w]
                IN  /\ \A i \in 1..Len(batch) :
                          \E c \in store'[d] : c.id = batch[i].id /\ ColumnsEqual(c, Value(batch[i]))
                    /\ \A c \in store[d] : c.id \notin BatchIds(batch) => c \in store'[d]
                    /\ \A c \in store'[d] : c.id \notin BatchIds(batch) => c \in store[d]]_vars

\* a committed batch has replaced the record of id 1, population and all,
\* by a row with clamped iso codes and no population
C13_Witness ==
    /\ Summary(1)
    /\ req[1].flushes = <<"ok">>
    /\ \E old \in req[1].store0 : old.id = 1 /\ old.population # NONE
    /\ \E c \in Table(1) :
          /\ c.id = 1 /\ c.population = NONE
          /\ c.iso2 = Some(<<"B", "R">>) /\ c.iso3 = Some(<<"B", "R", "A">>)
          /\ c.city = <<"L">>

\* w reads a data row in this step
ReadStep(w) ==
    /\ req[w].kind = "import" /\ req[w].pc = "loop"
    /\ req'[w].line_number = req[w].line_number + 1

\* the fields of the row w reads next
NextFields(w) == req[w].upload.records[req[w].pos + 1].fields

\* the causes of a row-level skip the claim names
SkipCause(fields) ==
    \/ Len(fields) # ROW_FIELDS
    \/ ~IsInt(clean_row(fields)[11])
    \/ ~IsFloat(clean_row(fields)[3])
    \/ ~IsFloat(clean_row(fields)[4])

\* the step skipped the row: skipped + 1, one error event of its line, the
\* batch as it was
RowSkipped(w) ==
    /\ req'[w].skipped_count = req[w].skipped_count + 1
    /\ Len(req'[w].events) = Len(req[w].events) + 1
    /\ req'[w].events[Len(req'[w].events)].msg.line = req'[w].line_number
    /\ req'[w].events[Len(req'[w].events)].rows = 1
    /\ req'[w].current_batch = req[w].current_batch
    /\ req'[w].flushed = req[w].flushed

\* the step put the validated record of the row at the end of the batch
RowEntered(w) ==
    /\ req'[w].skipped_count = req[w].skipped_count
    /\ req'[w].events = req[w].events
    /\ Len(req'[w].current_batch) = Len(req[w].current_batch) + 1
    /\ SubSeq(req'[w].current_batch, 1, Len(req[w].current_batch)) = req[w].current_batch

RECURSIVE Concat(_)
Concat(batches) == IF batches = <<>> THEN <<>> ELSE Head(batches) \o Concat(Tail(batches))

\* the validated rows of the first n data rows, in input order
RECURSIVE ValidatedUpTo(_, _)
ValidatedUpTo(rows, n) ==
    IF n = 0 THEN <<>>
    ELSE LET parsed == parse_csv_row(rows[n].fields, n)
         IN  ValidatedUpTo(rows, n - 1) \o (IF IsError(parsed) THEN <<>> ELSE <<parsed>>)

InProgress(w) == req[w].kind = "import" /\ req[w].pc \in {"loop", "probe", "execute", "commit"}
Flushing(w) == req[w].kind = "import" /\ req[w].pc \in {"probe", "execute", "commit"}

\* C15: the pending batch never holds more than BATCH_SIZE rows; every
\* flushed batch but the last holds exactly BATCH_SIZE rows; a flush is under
\* way exactly when the batch has reached BATCH_SIZE or the input is
\* exhausted with a non-empty batch; the flushed batches, in flush order and
\* followed by the pending batch, are the validated rows read so far in
\* input order, and at the summary the flushed batches are all of them.
C15_BatchesInInputOrder ==
    \A w \in Workers :
        req[w].kind = "import" =>
            LET r == req[w]
                rows == DataRowsOf(r.upload)
            IN  /\ Len(r.current_batch) <= BATCH_SIZE
                /\ \A i \in 1..Len(r.flushed) :
                      /\ Len(r.flushed[i]) \in 1..BATCH_SIZE
                      /\ i < Len(r.flushed) => Len(r.flushed[i]) = BATCH_SIZE
                /\ Len(r.flushes) = Len(r.flushed)
                /\ InProgress(w) =>
                      Concat(r.flushed) \o r.current_batch = ValidatedUpTo(rows, r.line_number)
                /\ Flushing(w) <=>
                      /\ InProgress(w)
                      /\ \/ Len(r.current_batch) = BATCH_SIZE /\ ~r.final
                         \/ r.final /\ r.pos = Len(r.upload.records) /\ r.current_batch # <<>>
                /\ Summary(w) => Concat(r.flushed) = ValidatedUpTo(rows, Len(rows))

\* a summary after a full batch and a last batch of one row
C15_Witness ==
    /\ Summary(1)
    /\ Len(req[1].flushed) = 2
    /\ Len(req[1].flushed[1]) = BATCH_SIZE
    /\ Len(req[1].flushed[2]) = 1
    /\ req[1].flushed[1][1].id # req[1].flushed[2][1].id

\* C16: in every success summary inserted + updated + skipped is
\* total_processed, and total_processed is the number of data rows of the
\* file, whatever the mix of row errors, committed and failed batches and
\* repeated ids.
C16_CountsAccountForRows ==
    \A w \in Workers :
        Summary(w) =>
            /\ req[w].inserted_count + req[w].updated_count + req[w].skipped_count
                  = req[w].line_number
            /\ req[w].line_number = Len(DataRowsOf(req[w].upload))

\* a summary with an inserted row, an updated row and a failed last batch,
\* over a file that names id 1 twice
C16_Witness ==
    /\ Summary(1)
    /\ DataRowsOf(req[1].upload) = <<RowA2, RowPopText, RowA2>>
    /\ req[1].inserted_count = 1 /\ req[1].updated_count = 1 /\ req[1].skipped_count = 1
    /\ Len(req[1].flushes) = 2 /\ req[1].flushes[1] = "ok" /\ req[1].flushes[2] # "ok"

\* C17: a radius query ends as not found only if some id of city_ids is not
\* in the store; when every id resolves, repeated ids included, it succeeds
\* with the near set; a not-found error that lists the missing ids never
\* lists none.
C17_NotFoundOnlyIfMissing ==
    \A w \in Workers :
        RadiusDone(w) =>
            /\ req[w].status = 404 => Unresolved(w) # {}
            /\ AllResolve(w) =>
                  /\ req[w].status = 200
                  /\ SeqToSet(req[w].data) = Near(Table(w), req[w].city_ids, req[w].radius_km)
            /\ (req[w].status = 404 /\ req[w].detail = "Some city IDs were not found") =>
                  req[w].missing # <<>>

=============================================================================
